---- MODULE Spec2Model ----
(***************************************************************************)
(* Model of the two discrete-event simulators of the repository:           *)
(*   - RailwaySystemSimulator.simulate_policy   (src/simulation.py)        *)
(*   - simulate_server_and_disks                (src/simulationNorm.py)    *)
(* Times are integers.  Quotients computed by the code with float division *)
(* are kept as exact fractions [inf, num, den].                            *)
(***************************************************************************)
EXTENDS Integers, Sequences, FiniteSets, TLC

(***************************************************************************)
(* Bounds of the model                                                     *)
(***************************************************************************)
MaxDisks == 3
MaxHorizon == 3
MaxDraw == 4
MaxRepairTime == 2
MaxReplacements == 6

\* Python's None, for values that are otherwise non-negative numbers
None == 0 - 1

\* policy.raid_level values: the four known levels and one unknown level
RaidLevels == {0, 1, 5, 6, 10}

\* policy.avg_service_cost and policy.avg_maintenance_cost
avg_service_cost == 2
avg_maintenance_cost == 3

\* values weibull_failure_time may return (weibull_min.rvs is non-negative)
FailureDraws == 0 .. MaxDraw

\* self.simulation_duration values
Horizons == 0 .. MaxHorizon

(***************************************************************************)
(* Event queues.  simulate_policy keeps a list of tuples (time, type,       *)
(* index) sorted with list.sort(); simulate_server_and_disks keeps the     *)
(* same tuples in a heapq.  Both yield the events in the order of Python's *)
(* tuple comparison.  Disk indices are 1-based here, 0-based in the code.  *)
(***************************************************************************)
\* order of the event type strings under Python's string comparison
TypeRank(type) ==
    CASE type = "disk_fail" -> 0
      [] type = "disk_repair" -> 1
      [] type = "failure" -> 2
      [] type = "repair" -> 3
      [] type = "server_fail" -> 4
      [] type = "server_repair" -> 5

\* Python's tuple comparison a < b on (time, type, index)
EventLess(a, b) ==
    \/ a.time < b.time
    \/ a.time = b.time /\ TypeRank(a.type) < TypeRank(b.type)
    \/ a.time = b.time /\ a.type = b.type /\ a.index < b.index

\* events.append(e); events.sort() on a list that is already sorted
\* (the sort is stable: e goes after the entries that are not greater)
AppendAndSortNothingMutant(evs, e) == evs

AppendAndSortMutant(evs, e) == <<e>> \o evs

RECURSIVE AppendAndSort(_, _)
AppendAndSort(evs, e) ==
    IF evs = <<>> THEN <<e>>
    ELSE IF EventLess(e, Head(evs)) THEN <<e>> \o evs
    ELSE <<Head(evs)>> \o AppendAndSort(Tail(evs), e)

RECURSIVE SortAll(_)
SortAll(evs) ==
    IF evs = <<>> THEN <<>>
    ELSE AppendAndSort(SortAll(Tail(evs)), Head(evs))

(***************************************************************************)
(* Redundancy decisions of simulate_policy                                 *)
(***************************************************************************)
\* the system_failed flag computed after a failure event
SystemFailedLevel0Mutant(raid_level, failed, n) ==
    IF raid_level = 0 THEN failed > 1
    ELSE IF raid_level = 1 THEN failed = n
    ELSE IF raid_level = 5 THEN failed > 1
    ELSE IF raid_level = 6 THEN failed > 2
    ELSE TRUE

SystemFailedMutant(raid_level, failed, n) ==
    IF raid_level = 0 THEN TRUE
    ELSE IF raid_level = 1 THEN failed = n
    ELSE IF raid_level = 5 THEN failed >= 1
    ELSE IF raid_level = 6 THEN failed >= 2
    ELSE TRUE

SystemFailed(raid_level, failed, n) ==
    IF raid_level = 0 THEN TRUE
    ELSE IF raid_level = 1 THEN failed = n
    ELSE IF raid_level = 5 THEN failed > 1
    ELSE IF raid_level = 6 THEN failed > 2
    ELSE TRUE

\* the system_recovered flag computed after a repair event while down
SystemRecovered(raid_level, failed, n) ==
    IF raid_level = 0 THEN TRUE
    ELSE IF raid_level = 1 THEN failed < n
    ELSE IF raid_level = 5 THEN failed <= 1
    ELSE IF raid_level = 6 THEN failed <= 2
    ELSE FALSE

\* "if system_failed and not system_down": new (system_down, downtime_start)
OpenOutageMutant(system_failed, down, start, now) ==
    IF system_failed /\ ~down
    THEN [system_down |-> TRUE, downtime_start |-> start]
    ELSE [system_down |-> down, downtime_start |-> start]

OpenOutage(system_failed, down, start, now) ==
    IF system_failed /\ ~down
    THEN [system_down |-> TRUE, downtime_start |-> now]
    ELSE [system_down |-> down, downtime_start |-> start]

\* "if event_time > self.simulation_duration: break"
PastHorizonMutant(event_time, horizon) == FALSE

PastHorizon(event_time, horizon) == event_time > horizon

(***************************************************************************)
(* Metrics of simulate_policy (float quotients as exact fractions)         *)
(***************************************************************************)
Quotient(a, b) == [inf |-> FALSE, num |-> a, den |-> b]
Infinity == [inf |-> TRUE, num |-> 0, den |-> 1]

\* equality of two quotients as numbers
SameNumber(p, q) ==
    /\ p.inf = q.inf
    /\ ~p.inf => p.num * q.den = q.num * p.den

MetricsMutant(total_time, downtime, replacements) ==
    LET uptime == total_time - downtime IN
    [total_downtime |-> downtime,
     total_replacements |-> replacements,
     availability |-> Quotient(uptime * 100, total_time),
     MTBF |-> IF replacements > 0 THEN Quotient(total_time, replacements) ELSE Quotient(total_time, 1),
     MTTR |-> IF replacements > 0 THEN Quotient(downtime, replacements) ELSE Quotient(0, 1)]

Metrics(total_time, downtime, replacements) ==
    LET uptime == total_time - downtime IN
    [total_downtime |-> downtime,
     total_replacements |-> replacements,
     availability |-> Quotient(uptime * 100, total_time),
     MTBF |-> IF replacements > 0 THEN Quotient(uptime, replacements) ELSE Infinity,
     MTTR |-> IF replacements > 0 THEN Quotient(downtime, replacements) ELSE Quotient(0, 1)]

NoResult == Metrics(1, 0, 0)

(***************************************************************************)
(* State of simulate_policy                                                *)
(***************************************************************************)
VARIABLES
    policy,                 \* [raid_level, number_of_disks, repair_time]
    simulation_duration,    \* self.simulation_duration
    total_downtime, total_maintenance_cost, total_replacements,
    current_time,
    disks,                  \* sequence of [failure_time, failed]
    failed_disks, system_down, downtime_start,
    events,                 \* sorted sequence of [time, type, index]
    pc,                     \* "loop", "exited", "done", "error"
    result,                 \* the returned dictionary
    failures_processed,     \* history: failure events handled by the loop
    time_down,              \* history: time spent so far with system_down true
    enqueued                \* history: the pending events by time and, among
                            \* equal times, in the order of their events.append

policyVars == <<policy, simulation_duration, total_downtime, total_maintenance_cost,
                total_replacements, current_time, disks, failed_disks, system_down,
                downtime_start, events, pc, result, failures_processed, time_down,
                enqueued>>

(***************************************************************************)
(* State of simulate_server_and_disks                                      *)
(***************************************************************************)
VARIABLES
    sim_duration, num_disks,
    server_status, disks_status,
    server_total_downtime, server_failures, server_total_repair_cost,
    server_total_lost_revenue, server_downtime_intervals, server_downtime_start,
    disks_results,          \* sequence of per-disk records
    heap,                   \* the heapq 'events', in pop order
    norm_time,              \* current_time of simulate_server_and_disks
    norm_pc,                \* "idle", "loop", "exited", "done", "error"
    server_result,          \* the returned server dictionary
    next_fail_beyond,       \* history: per disk, the failure time drawn at its
                            \* last disk_repair exceeded sim_duration
    heap_enqueued           \* history: the pending events by time and, among
                            \* equal times, in the order of their heappush

normVars == <<sim_duration, num_disks, server_status, disks_status,
              server_total_downtime, server_failures, server_total_repair_cost,
              server_total_lost_revenue, server_downtime_intervals,
              server_downtime_start, disks_results, heap, norm_time, norm_pc,
              server_result, next_fail_beyond, heap_enqueued>>

(***************************************************************************)
(* State of run_simulations (one policy of self.policies) and of the       *)
(* random generator shared by all draws                                    *)
(***************************************************************************)
VARIABLES
    num_simulations,        \* self.num_simulations
    sla_targets,            \* [availability, max_downtime]
    policy_results,         \* results of the trials run so far
    all_results,            \* the aggregated records
    run_pc,                 \* "idle", "trials", "done", "error"
    draws_before,           \* draws taken from the global generator before
                            \* the current trial started
    min_interval            \* smallest failure interval the generator yields

runVars == <<num_simulations, sla_targets, policy_results, all_results, run_pc,
             draws_before, min_interval>>

vars == <<policyVars, normVars, runVars>>

\* e is in the queue q
InQueue(q, e) == \E k \in 1 .. Len(q) : q[k] = e

\* e enters a queue kept by time and, among equal times, by insertion
RECURSIVE InsertByTime(_, _)
InsertByTime(q, e) ==
    IF q = <<>> THEN <<e>>
    ELSE IF e.time < Head(q).time THEN <<e>> \o q
    ELSE <<Head(q)>> \o InsertByTime(Tail(q), e)

RECURSIVE InsertAllByTime(_, _)
InsertAllByTime(q, es) ==
    IF es = <<>> THEN q
    ELSE InsertAllByTime(InsertByTime(q, Head(es)), Tail(es))

\* that queue after a step that popped the head of the queue 'old' and left
\* the queue 'new'
Arrivals(order, old, new) ==
    InsertAllByTime(SelectSeq(order, LAMBDA e : e # Head(old)),
                    SelectSeq(new, LAMBDA e : ~InQueue(Tail(old), e)))

DiskIndices == 1 .. policy.number_of_disks

\* the failure intervals drawn in this run
IntervalDraws == {d \in FailureDraws : d >= min_interval}

\* bound on the failure events handled in one trial: with positive integer
\* intervals a disk fails at most simulation_duration times
ReplacementCap ==
    IF min_interval = 0 THEN MaxReplacements
    ELSE policy.number_of_disks * simulation_duration

\* line 187: time_to_failure = current_time + weibull_failure_time(...)
NextFailureTimeMutant(now, draw) == now

NextFailureTime(now, draw) == now + draw

\* line 149: the cost of one replacement
CostOfReplacementMutant == avg_service_cost

CostOfReplacement == avg_service_cost + avg_maintenance_cost

\* time with system_down true between two instants of the trial
TimeDown(acc, down, from, to) == IF down THEN acc + (to - from) ELSE acc

\* lines 192-195: total_downtime after the closing of an open outage
CloseAtHorizonMutant(total, down, start, horizon) == total

CloseAtHorizon(total, down, start, horizon) ==
    IF down THEN total + (horizon - start) ELSE total

Policies == [raid_level : RaidLevels,
             number_of_disks : 1 .. MaxDisks,
             repair_time : 0 .. MaxRepairTime]

\* lines 80-104: state at the first test of the while condition
InitPolicy ==
    /\ policy \in Policies
    /\ simulation_duration \in Horizons
    /\ total_downtime = 0
    /\ total_maintenance_cost = 0
    /\ total_replacements = 0
    /\ current_time = 0
    /\ \E draws \in [1 .. policy.number_of_disks -> IntervalDraws] :
          /\ disks = [i \in 1 .. policy.number_of_disks |->
                         [failure_time |-> 0 + draws[i], failed |-> FALSE]]
          /\ events = SortAll([i \in 1 .. policy.number_of_disks |->
                         [time |-> draws[i], type |-> "failure", index |-> i]])
          /\ enqueued = InsertAllByTime(<<>>, [i \in 1 .. policy.number_of_disks |->
                         [time |-> draws[i], type |-> "failure", index |-> i]])
    /\ failed_disks = 0
    /\ system_down = FALSE
    /\ downtime_start = None
    /\ pc = "loop"
    /\ result = NoResult
    /\ failures_processed = 0
    /\ time_down = 0

\* the while condition holds and the popped event is within the horizon
EventDue(type) ==
    /\ pc = "loop"
    /\ current_time < simulation_duration
    /\ events # <<>>
    /\ ~PastHorizon(Head(events).time, simulation_duration)
    /\ Head(events).type = type

\* lines 114-150: a 'failure' event
Failure ==
    /\ EventDue("failure")
    /\ total_replacements < ReplacementCap
    /\ LET ev == Head(events)
           now == ev.time
           failed == failed_disks + 1
           system_failed == SystemFailed(policy.raid_level, failed, policy.number_of_disks)
           outage == OpenOutage(system_failed, system_down, downtime_start, now)
           repair == [time |-> now + policy.repair_time, type |-> "repair", index |-> ev.index]
       IN /\ current_time' = now
          /\ disks' = [disks EXCEPT ![ev.index].failed = TRUE]
          /\ failed_disks' = failed
          /\ system_down' = outage.system_down
          /\ downtime_start' = outage.downtime_start
          /\ events' = AppendAndSort(Tail(events), repair)
          /\ total_maintenance_cost' = total_maintenance_cost + CostOfReplacement
          /\ total_replacements' = total_replacements + 1
          /\ failures_processed' = failures_processed + 1
          /\ time_down' = TimeDown(time_down, system_down, current_time, now)
    /\ UNCHANGED <<normVars, runVars, policy, simulation_duration, total_downtime, pc, result>>
    /\ enqueued' = Arrivals(enqueued, events, events')

\* lines 152-190: a 'repair' event
Repair ==
    /\ EventDue("repair")
    /\ \E draw \in IntervalDraws :
       LET ev == Head(events)
           now == ev.time
           failed == failed_disks - 1
           recovered == system_down /\ SystemRecovered(policy.raid_level, failed, policy.number_of_disks)
           time_to_failure == NextFailureTime(now, draw)
           failure == [time |-> time_to_failure, type |-> "failure", index |-> ev.index]
       IN /\ current_time' = now
          /\ disks' = [disks EXCEPT ![ev.index] = [failure_time |-> time_to_failure, failed |-> FALSE]]
          /\ failed_disks' = failed
          /\ system_down' = IF recovered THEN FALSE ELSE system_down
          /\ total_downtime' = IF recovered THEN total_downtime + (now - downtime_start) ELSE total_downtime
          /\ downtime_start' = IF recovered THEN None ELSE downtime_start
          /\ events' = AppendAndSort(Tail(events), failure)
          /\ time_down' = TimeDown(time_down, system_down, current_time, now)
    /\ UNCHANGED <<normVars, runVars, policy, simulation_duration, total_maintenance_cost,
                   total_replacements, pc, result, failures_processed>>
    /\ enqueued' = Arrivals(enqueued, events, events')

\* lines 108-110: the popped event lies beyond the horizon
Break ==
    /\ pc = "loop"
    /\ current_time < simulation_duration
    /\ events # <<>>
    /\ PastHorizon(Head(events).time, simulation_duration)
    /\ events' = Tail(events)
    /\ pc' = "exited"
    /\ UNCHANGED <<normVars, runVars, policy, simulation_duration, total_downtime, total_maintenance_cost,
                   total_replacements, current_time, disks, failed_disks, system_down,
                   downtime_start, result, failures_processed, time_down>>
    /\ enqueued' = Arrivals(enqueued, events, events')

\* line 106: the while condition is false
ExitLoop ==
    /\ pc = "loop"
    /\ ~(current_time < simulation_duration /\ events # <<>>)
    /\ pc' = "exited"
    /\ UNCHANGED <<normVars, runVars, policy, simulation_duration, total_downtime, total_maintenance_cost,
                   total_replacements, current_time, disks, failed_disks, system_down,
                   downtime_start, events, result, failures_processed, time_down,
                   enqueued>>

\* lines 192-212: close an open outage at the horizon, compute the metrics
\* (uptime / total_time raises ZeroDivisionError when the horizon is 0)
Return ==
    /\ pc = "exited"
    /\ LET downtime == CloseAtHorizon(total_downtime, system_down, downtime_start,
                                      simulation_duration)
       IN /\ total_downtime' = downtime
          /\ time_down' = TimeDown(time_down, system_down, current_time,
                                   simulation_duration)
          /\ IF simulation_duration = 0
             THEN pc' = "error" /\ result' = result
             ELSE /\ pc' = "done"
                  /\ result' = Metrics(simulation_duration, downtime, total_replacements)
    /\ UNCHANGED <<normVars, runVars, policy, simulation_duration, total_maintenance_cost,
                   total_replacements, current_time, disks, failed_disks, system_down,
                   downtime_start, events, failures_processed, enqueued>>

(***************************************************************************)
(* simulate_server_and_disks (src/simulationNorm.py).  One time unit is    *)
(* half an hour, so random.uniform(1.5, 2.5) draws from 3 .. 5.            *)
(***************************************************************************)
MaxDisksNorm == 2
MaxSimDuration == 5
MaxDrawNorm == 3
MaxFailuresNorm == 2

MinRepairDraw == 3
MaxRepairDraw == 5
RepairDraws == MinRepairDraw .. MaxRepairDraw

\* server['server_repair_cost_PLN'], disk['repair_cost_PLN'] and
\* disk['lost_revenue_per_hour_PLN'] of the configuration
server_repair_cost == 7
DiskRepairCost(i) == 2 + i
LostRevenuePerHour(i) == i

\* line 53: the sum of the rates of the first n disks
RECURSIVE SumLostRevenue(_)
SumLostRevenue(n) == IF n = 0 THEN 0 ELSE LostRevenuePerHour(n) + SumLostRevenue(n - 1)

total_lost_revenue_per_hourMutant == LostRevenuePerHour(1)

total_lost_revenue_per_hour == SumLostRevenue(num_disks)

\* values weibull_min.rvs(shape, scale) may return: non-negative, and 0
\* when the scale (sim_duration / 1.0, sim_duration / 2.0) is 0.  The
\* draws are the short intervals and one interval that passes the horizon.
WeibullDraws(horizon) ==
    IF horizon = 0 THEN {0} ELSE (min_interval .. MaxDrawNorm) \cup {horizon + 1}

\* "if repair_finish > sim_duration: repair_finish = sim_duration"
ClipToHorizonMutant(repair_finish, horizon) == repair_finish

ClipToHorizon(repair_finish, horizon) ==
    IF repair_finish > horizon THEN horizon ELSE repair_finish

\* heapq.heappush(events, e)
HeapPushMutant(h, e) == h

HeapPush(h, e) == AppendAndSort(h, e)

\* "if t <= sim_duration: heapq.heappush(events, e)"
PushIfWithin(h, e, horizon) == IF e.time <= horizon THEN HeapPush(h, e) ELSE h

\* the last downtime interval is open: (start, None)
LastOpen(intervals) == intervals # <<>> /\ intervals[Len(intervals)][2] = None

\* close the open last interval of a disk at time end
CloseDiskIntervalLeftOpenMutant(d, end, rate) == d

CloseDiskIntervalMutant(d, end, rate) ==
    IF LastOpen(d.downtime_intervals)
    THEN LET k == Len(d.downtime_intervals)
             start == d.downtime_intervals[k][1]
         IN [d EXCEPT !.downtime = @ + (end - start),
                      !.downtime_intervals = [@ EXCEPT ![k] = <<start, end>>]]
    ELSE d

CloseDiskInterval(d, end, rate) ==
    IF LastOpen(d.downtime_intervals)
    THEN LET k == Len(d.downtime_intervals)
             start == d.downtime_intervals[k][1]
         IN [d EXCEPT !.downtime = @ + (end - start),
                      !.lost_revenue_total = @ + (end - start) * rate,
                      !.downtime_intervals = [@ EXCEPT ![k] = <<start, end>>]]
    ELSE d

\* lines 203-223: mttr, mttf and availability_percent of one component
NormMetrics(downtime, failures, horizon) ==
    [mttr |-> IF failures > 0 THEN Quotient(downtime, failures) ELSE Quotient(0, 1),
     mttf |-> IF failures > 0 THEN Quotient(horizon, failures) ELSE Quotient(horizon, 1),
     availability_percent |-> Quotient((horizon - downtime) * 100, horizon)]

\* lines 41-50
NewDiskResult ==
    [downtime |-> 0, failures |-> 0, repair_cost_total |-> 0,
     lost_revenue_total |-> 0, mttr |-> Quotient(0, 1), mttf |-> Quotient(0, 1),
     availability_percent |-> Quotient(100, 1), downtime_intervals |-> <<>>]

NoServerResult ==
    [downtime |-> 0, failures |-> 0, repair_cost_total |-> 0, lost_revenue |-> 0,
     mttr |-> Quotient(0, 1), mttf |-> Quotient(0, 1),
     availability_percent |-> Quotient(100, 1)]

\* lines 21-71: state at the first test of "while events"
InitNorm ==
    /\ sim_duration \in {0, MaxSimDuration}
    /\ num_disks \in 1 .. MaxDisksNorm
    /\ server_status = "up"
    /\ disks_status = [i \in 1 .. num_disks |-> "up"]
    /\ server_total_downtime = 0
    /\ server_failures = 0
    /\ server_total_repair_cost = 0
    /\ server_total_lost_revenue = 0
    /\ server_downtime_intervals = <<>>
    /\ server_downtime_start = None
    /\ disks_results = [i \in 1 .. num_disks |-> NewDiskResult]
    /\ \E first_server_fail \in WeibullDraws(sim_duration) :
       \E first_disk_fail \in [1 .. num_disks -> WeibullDraws(sim_duration)] :
          LET pushed ==
                  <<[time |-> first_server_fail, type |-> "server_fail", index |-> None]>>
                    \o [i \in 1 .. num_disks |->
                          [time |-> first_disk_fail[i], type |-> "disk_fail", index |-> i]]
          IN heap = SortAll(pushed) /\ heap_enqueued = InsertAllByTime(<<>>, pushed)
    /\ norm_time = 0
    /\ norm_pc = "loop"
    /\ server_result = NoServerResult
    /\ next_fail_beyond = [i \in 1 .. num_disks |-> FALSE]

\* the state of the simulator that is not running
IdleNorm ==
    /\ sim_duration = 0 /\ num_disks = 0
    /\ server_status = "up" /\ disks_status = <<>>
    /\ server_total_downtime = 0 /\ server_failures = 0
    /\ server_total_repair_cost = 0 /\ server_total_lost_revenue = 0
    /\ server_downtime_intervals = <<>> /\ server_downtime_start = None
    /\ disks_results = <<>> /\ heap = <<>> /\ norm_time = 0
    /\ norm_pc = "idle" /\ server_result = NoServerResult
    /\ next_fail_beyond = <<>>
    /\ heap_enqueued = <<>>

IdlePolicy ==
    /\ policy = [raid_level |-> 0, number_of_disks |-> 0, repair_time |-> 0]
    /\ simulation_duration = 0
    /\ total_downtime = 0 /\ total_maintenance_cost = 0 /\ total_replacements = 0
    /\ current_time = 0 /\ disks = <<>> /\ failed_disks = 0
    /\ system_down = FALSE /\ downtime_start = None /\ events = <<>>
    /\ pc = "idle" /\ result = NoResult /\ failures_processed = 0
    /\ time_down = 0 /\ enqueued = <<>>

\* lines 73-81: an event of the given type is popped within the horizon
NormEventDue(type) ==
    /\ norm_pc = "loop"
    /\ heap # <<>>
    /\ ~(Head(heap).time > sim_duration)
    /\ Head(heap).type = type

\* lines 83-106
ServerFail ==
    /\ NormEventDue("server_fail")
    /\ server_failures < MaxFailuresNorm
    /\ norm_time' = Head(heap).time
    /\ IF server_status = "up"
       THEN \E repair_time \in RepairDraws :
            LET now == Head(heap).time
                repair_finish == ClipToHorizon(now + repair_time, sim_duration)
            IN /\ server_status' = "down"
               /\ server_failures' = server_failures + 1
               /\ server_total_repair_cost' = server_total_repair_cost + server_repair_cost
               /\ server_downtime_start' = now
               /\ disks_status' = [i \in 1 .. num_disks |-> "down"]
               /\ disks_results' = [i \in 1 .. num_disks |->
                     IF disks_status[i] = "up"
                     THEN [disks_results[i] EXCEPT
                             !.downtime_intervals = Append(@, <<now, None>>)]
                     ELSE disks_results[i]]
               /\ heap' = HeapPush(Tail(heap),
                     [time |-> repair_finish, type |-> "server_repair", index |-> None])
               /\ server_downtime_intervals' =
                     Append(server_downtime_intervals, <<now, repair_finish>>)
               /\ server_total_downtime' = server_total_downtime + (repair_finish - now)
       ELSE /\ heap' = Tail(heap)
            /\ UNCHANGED <<server_status, server_failures, server_total_repair_cost,
                           server_downtime_start, disks_status, disks_results,
                           server_downtime_intervals, server_total_downtime>>
    /\ UNCHANGED <<policyVars, runVars, sim_duration, num_disks, server_total_lost_revenue,
                   norm_pc, server_result, next_fail_beyond>>
    /\ heap_enqueued' = Arrivals(heap_enqueued, heap, heap')

\* lines 108-131
ServerRepair ==
    /\ NormEventDue("server_repair")
    /\ norm_time' = Head(heap).time
    /\ IF server_status = "down"
       THEN \E draw \in WeibullDraws(sim_duration) :
            LET now == Head(heap).time
                next_server_fail == now + draw
            IN /\ server_status' = "up"
               /\ disks_status' = [i \in 1 .. num_disks |-> "up"]
               /\ disks_results' = [i \in 1 .. num_disks |->
                     IF disks_status[i] = "down"
                     THEN CloseDiskInterval(disks_results[i], now, 0)
                     ELSE disks_results[i]]
               /\ server_total_lost_revenue' =
                     IF server_downtime_start # None
                     THEN server_total_lost_revenue
                            + (now - server_downtime_start) * total_lost_revenue_per_hour
                     ELSE server_total_lost_revenue
               /\ heap' = PushIfWithin(Tail(heap),
                     [time |-> next_server_fail, type |-> "server_fail", index |-> None],
                     sim_duration)
       ELSE /\ heap' = Tail(heap)
            /\ UNCHANGED <<server_status, disks_status, disks_results,
                           server_total_lost_revenue>>
    /\ UNCHANGED <<policyVars, runVars, sim_duration, num_disks, server_total_downtime,
                   server_failures, server_total_repair_cost, server_downtime_intervals,
                   server_downtime_start, norm_pc, server_result, next_fail_beyond>>
    /\ heap_enqueued' = Arrivals(heap_enqueued, heap, heap')

\* lines 133-146
DiskFail ==
    /\ NormEventDue("disk_fail")
    /\ norm_time' = Head(heap).time
    /\ LET now == Head(heap).time
           component_index == Head(heap).index
       IN IF server_status = "up" /\ disks_status[component_index] = "up"
          THEN \E repair_time \in RepairDraws :
               LET repair_finish == ClipToHorizon(now + repair_time, sim_duration)
               IN /\ disks_results[component_index].failures < MaxFailuresNorm
                  /\ disks_status' = [disks_status EXCEPT ![component_index] = "down"]
                  /\ disks_results' = [disks_results EXCEPT ![component_index] =
                        [@ EXCEPT !.failures = @ + 1,
                                  !.repair_cost_total = @ + DiskRepairCost(component_index),
                                  !.downtime_intervals = Append(@, <<now, None>>)]]
                  /\ heap' = HeapPush(Tail(heap),
                        [time |-> repair_finish, type |-> "disk_repair",
                         index |-> component_index])
          ELSE /\ heap' = Tail(heap)
               /\ UNCHANGED <<disks_status, disks_results>>
    /\ UNCHANGED <<policyVars, runVars, sim_duration, num_disks, server_status,
                   server_total_downtime, server_failures, server_total_repair_cost,
                   server_total_lost_revenue, server_downtime_intervals,
                   server_downtime_start, norm_pc, server_result, next_fail_beyond>>
    /\ heap_enqueued' = Arrivals(heap_enqueued, heap, heap')

\* lines 148-168
DiskRepair ==
    /\ NormEventDue("disk_repair")
    /\ norm_time' = Head(heap).time
    /\ LET now == Head(heap).time
           component_index == Head(heap).index
       IN IF server_status = "up" /\ disks_status[component_index] = "down"
          THEN \E draw \in WeibullDraws(sim_duration) :
               LET next_disk_fail == now + draw
               IN /\ disks_status' = [disks_status EXCEPT ![component_index] = "up"]
                  /\ disks_results' = [disks_results EXCEPT ![component_index] =
                        CloseDiskInterval(@, now, LostRevenuePerHour(component_index))]
                  /\ heap' = PushIfWithin(Tail(heap),
                        [time |-> next_disk_fail, type |-> "disk_fail",
                         index |-> component_index],
                        sim_duration)
                  /\ next_fail_beyond' = [next_fail_beyond EXCEPT
                        ![component_index] = next_disk_fail > sim_duration]
          ELSE /\ heap' = Tail(heap)
               /\ UNCHANGED <<disks_status, disks_results, next_fail_beyond>>
    /\ UNCHANGED <<policyVars, runVars, sim_duration, num_disks, server_status,
                   server_total_downtime, server_failures, server_total_repair_cost,
                   server_total_lost_revenue, server_downtime_intervals,
                   server_downtime_start, norm_pc, server_result>>
    /\ heap_enqueued' = Arrivals(heap_enqueued, heap, heap')

\* lines 77-78: the popped event lies beyond the horizon
BreakNorm ==
    /\ norm_pc = "loop"
    /\ heap # <<>>
    /\ Head(heap).time > sim_duration
    /\ heap' = Tail(heap)
    /\ norm_pc' = "exited"
    /\ UNCHANGED <<policyVars, runVars, sim_duration, num_disks, server_status, disks_status,
                   server_total_downtime, server_failures, server_total_repair_cost,
                   server_total_lost_revenue, server_downtime_intervals,
                   server_downtime_start, disks_results, norm_time, server_result,
                   next_fail_beyond>>
    /\ heap_enqueued' = Arrivals(heap_enqueued, heap, heap')

\* line 73: the heap is empty
ExitLoopNorm ==
    /\ norm_pc = "loop"
    /\ heap = <<>>
    /\ norm_pc' = "exited"
    /\ UNCHANGED <<policyVars, runVars, sim_duration, num_disks, server_status, disks_status,
                   server_total_downtime, server_failures, server_total_repair_cost,
                   server_total_lost_revenue, server_downtime_intervals,
                   server_downtime_start, disks_results, heap, norm_time, server_result,
                   next_fail_beyond, heap_enqueued>>

\* lines 170-235: close the intervals still open, compute the metrics
\* (downtime / sim_duration raises ZeroDivisionError when sim_duration is 0)
ReturnNorm ==
    /\ norm_pc = "exited"
    /\ LET server_open == server_status = "down" /\ server_downtime_start # None
           remaining == sim_duration - server_downtime_start
           downtime == IF server_open THEN server_total_downtime + remaining
                       ELSE server_total_downtime
           lost == IF server_open
                   THEN server_total_lost_revenue + remaining * total_lost_revenue_per_hour
                   ELSE server_total_lost_revenue
           closed == [i \in 1 .. num_disks |->
                        IF disks_status[i] = "down"
                        THEN CloseDiskInterval(disks_results[i], sim_duration,
                                               LostRevenuePerHour(i))
                        ELSE disks_results[i]]
       IN /\ server_total_downtime' = downtime
          /\ server_total_lost_revenue' = lost
          /\ server_downtime_intervals' =
                IF server_open
                THEN Append(server_downtime_intervals, <<server_downtime_start, sim_duration>>)
                ELSE server_downtime_intervals
          /\ IF sim_duration = 0
             THEN /\ norm_pc' = "error"
                  /\ disks_results' = closed
                  /\ server_result' = server_result
             ELSE /\ norm_pc' = "done"
                  /\ disks_results' = [i \in 1 .. num_disks |->
                        LET m == NormMetrics(closed[i].downtime, closed[i].failures,
                                             sim_duration)
                        IN [closed[i] EXCEPT !.mttr = m.mttr, !.mttf = m.mttf,
                               !.availability_percent = m.availability_percent]]
                  /\ server_result' =
                        LET m == NormMetrics(downtime, server_failures, sim_duration)
                        IN [downtime |-> downtime, failures |-> server_failures,
                            repair_cost_total |-> server_total_repair_cost,
                            lost_revenue |-> lost, mttr |-> m.mttr, mttf |-> m.mttf,
                            availability_percent |-> m.availability_percent]
    /\ UNCHANGED <<policyVars, runVars, sim_duration, num_disks, server_status, disks_status,
                   server_failures, server_total_repair_cost, server_downtime_start,
                   heap, norm_time, next_fail_beyond, heap_enqueued>>

(***************************************************************************)
(* run_simulations (src/simulation.py, lines 214-248) for one policy of    *)
(* self.policies: num_simulations trials of simulate_policy, then the      *)
(* aggregated record.  All trials draw from numpy's global generator.      *)
(***************************************************************************)
MaxSimulations == 2

\* the configurations of the policy and of the horizon that are aggregated
RunPolicies == [raid_level : {0, 1}, number_of_disks : {1, 2}, repair_time : {1}]
RunHorizons == {0, 2}
SlaTargets == [availability : {50, 100}, max_downtime : {0, 1}]

\* np.mean of a list of fractions: nan for the empty list
NaN == [nan |-> TRUE, num |-> 0, den |-> 1]

RECURSIVE SumOf(_)
SumOf(qs) ==
    IF qs = <<>> THEN [num |-> 0, den |-> 1]
    ELSE LET rest == SumOf(Tail(qs))
         IN [num |-> Head(qs).num * rest.den + rest.num * Head(qs).den,
             den |-> Head(qs).den * rest.den]

Mean(qs) ==
    IF qs = <<>> THEN NaN
    ELSE [nan |-> FALSE, num |-> SumOf(qs).num, den |-> SumOf(qs).den * Len(qs)]

\* mean >= target and mean <= target; a comparison with nan is False
MeanAtLeast(m, target) == ~m.nan /\ m.num >= target * m.den
MeanAtMost(m, target) == ~m.nan /\ m.num <= target * m.den

\* lines 237-240
MeetsSlaMutant(avg_availability, avg_downtime, targets) ==
    \/ MeanAtLeast(avg_availability, targets.availability)
    \/ MeanAtMost(avg_downtime, targets.max_downtime)

MeetsSla(avg_availability, avg_downtime, targets) ==
    /\ MeanAtLeast(avg_availability, targets.availability)
    /\ MeanAtMost(avg_downtime, targets.max_downtime)

\* lines 229-243
Aggregated(results, targets) ==
    LET avg_downtime ==
            Mean([k \in 1 .. Len(results) |-> Quotient(results[k].total_downtime, 1)])
        avg_availability ==
            Mean([k \in 1 .. Len(results) |-> results[k].availability])
        avg_replacements ==
            Mean([k \in 1 .. Len(results) |-> Quotient(results[k].total_replacements, 1)])
    IN [avg_downtime |-> avg_downtime,
        avg_availability |-> avg_availability,
        avg_replacements |-> avg_replacements,
        meets_sla |-> MeetsSla(avg_availability, avg_downtime, targets)]

\* draws the current trial has taken from the generator: one per disk at the
\* start and one at every repair event
DrawsInTrial == policy.number_of_disks + (failures_processed - failed_disks)

\* run_simulations is not running
NoRun ==
    /\ num_simulations = 0
    /\ sla_targets = [availability |-> 0, max_downtime |-> 0]
    /\ policy_results = <<>> /\ all_results = <<>>
    /\ run_pc = "idle" /\ draws_before = 0

IdleRun == min_interval = 0 /\ NoRun

\* lines 218-222: before the first trial of the policy
InitRun ==
    /\ num_simulations \in 0 .. MaxSimulations
    /\ sla_targets \in SlaTargets
    /\ policy_results = <<>> /\ all_results = <<>>
    /\ run_pc = "trials" /\ draws_before = 0
    /\ min_interval = 0
    /\ policy \in RunPolicies
    /\ simulation_duration \in RunHorizons
    /\ total_downtime = 0 /\ total_maintenance_cost = 0 /\ total_replacements = 0
    /\ current_time = 0 /\ disks = <<>> /\ failed_disks = 0
    /\ system_down = FALSE /\ downtime_start = None /\ events = <<>>
    /\ pc = "idle" /\ result = NoResult /\ failures_processed = 0
    /\ time_down = 0 /\ enqueued = <<>>

\* lines 223-226 and 80-104: the next trial starts
StartTrial ==
    /\ run_pc = "trials" /\ pc = "idle"
    /\ Len(policy_results) < num_simulations
    /\ total_downtime' = 0
    /\ total_maintenance_cost' = 0
    /\ total_replacements' = 0
    /\ current_time' = 0
    /\ \E draws \in [1 .. policy.number_of_disks -> IntervalDraws] :
          /\ disks' = [i \in 1 .. policy.number_of_disks |->
                          [failure_time |-> 0 + draws[i], failed |-> FALSE]]
          /\ events' = SortAll([i \in 1 .. policy.number_of_disks |->
                          [time |-> draws[i], type |-> "failure", index |-> i]])
          /\ enqueued' = InsertAllByTime(<<>>, [i \in 1 .. policy.number_of_disks |->
                          [time |-> draws[i], type |-> "failure", index |-> i]])
    /\ failed_disks' = 0
    /\ system_down' = FALSE
    /\ downtime_start' = None
    /\ pc' = "loop"
    /\ failures_processed' = 0
    /\ time_down' = 0
    /\ UNCHANGED <<normVars, runVars, policy, simulation_duration, result>>

\* lines 223-226: a trial returned its result
EndTrial ==
    /\ run_pc = "trials" /\ pc = "done"
    /\ policy_results' = Append(policy_results, result)
    /\ draws_before' = draws_before + DrawsInTrial
    /\ pc' = "idle"
    /\ UNCHANGED <<normVars, num_simulations, sla_targets, all_results, run_pc,
                   min_interval, policy, simulation_duration, total_downtime,
                   total_maintenance_cost, total_replacements, current_time, disks,
                   failed_disks, system_down, downtime_start, events, result,
                   failures_processed, time_down, enqueued>>

\* the exception of a trial leaves run_simulations
TrialError ==
    /\ run_pc = "trials" /\ pc = "error"
    /\ run_pc' = "error"
    /\ UNCHANGED <<normVars, policyVars, num_simulations, sla_targets, policy_results,
                   all_results, draws_before, min_interval>>

\* lines 229-245: all trials of the policy are done
Aggregate ==
    /\ run_pc = "trials" /\ pc = "idle"
    /\ Len(policy_results) = num_simulations
    /\ all_results' = Append(all_results, Aggregated(policy_results, sla_targets))
    /\ run_pc' = "done"
    /\ UNCHANGED <<normVars, policyVars, num_simulations, sla_targets, policy_results,
                   draws_before, min_interval>>

(***************************************************************************)
(* Specifications: one trial of simulate_policy (Spec), one run of         *)
(* simulate_server_and_disks (SpecNorm), either of the two (SpecBoth), one *)
(* policy of run_simulations (SpecRun)                                     *)
(***************************************************************************)
Init == IdleRun /\ InitPolicy /\ IdleNorm

Next == Failure \/ Repair \/ Break \/ ExitLoop \/ Return

Spec == Init /\ [][Next]_vars

InitNormSpec == IdleRun /\ IdlePolicy /\ InitNorm

NextNorm ==
    ServerFail \/ ServerRepair \/ DiskFail \/ DiskRepair
        \/ BreakNorm \/ ExitLoopNorm \/ ReturnNorm

SpecNorm == InitNormSpec /\ [][NextNorm]_vars

InitBoth == Init \/ InitNormSpec

NextBoth ==
    Failure \/ Repair \/ Break \/ ExitLoop \/ Return
        \/ ServerFail \/ ServerRepair \/ DiskFail \/ DiskRepair
        \/ BreakNorm \/ ExitLoopNorm \/ ReturnNorm

SpecBoth == InitBoth /\ [][NextBoth]_vars

InitRunSpec == InitRun /\ IdleNorm

NextRun ==
    StartTrial \/ Failure \/ Repair \/ Break \/ ExitLoop \/ Return
        \/ EndTrial \/ TrialError \/ Aggregate

SpecRun == InitRunSpec /\ [][NextRun]_vars

\* a trial of either simulator with strictly positive failure intervals and
\* a positive horizon; the interpreter keeps executing the loop
InitLive ==
    /\ min_interval = 1
    /\ NoRun
    /\ \/ InitPolicy /\ IdleNorm /\ simulation_duration > 0
       \/ IdlePolicy /\ InitNorm /\ sim_duration > 0

SpecLive == InitLive /\ [][NextBoth]_vars /\ WF_vars(NextBoth)

(***************************************************************************)
(* Properties of simulate_policy                                           *)
(***************************************************************************)
KnownLevels == {0, 1, 5, 6}

\* C1: with raid_level 0, after every processed event the system is up if
\* and only if no disk is failed.
C1_Raid0UpIffNoDiskFailed ==
    policy.raid_level = 0 => (system_down <=> failed_disks # 0)

\* C2: with raid_level 1, 5 or 6, after every processed event system_down
\* is true iff failed_disks = n (level 1), failed_disks > 1 (level 5),
\* failed_disks > 2 (level 6).
C2_RedundantLevelsDownIffThreshold ==
    /\ policy.raid_level = 1 => (system_down <=> failed_disks = policy.number_of_disks)
    /\ policy.raid_level = 5 => (system_down <=> failed_disks > 1)
    /\ policy.raid_level = 6 => (system_down <=> failed_disks > 2)

\* level 1 with 2 disks: the system was down, and is up again with exactly
\* one disk still failed
C2_Witness ==
    /\ policy.raid_level = 1 /\ policy.number_of_disks = 2
    /\ failed_disks = 1 /\ ~system_down /\ total_downtime > 0

\* C3: with an unknown raid_level the no-redundancy rule holds in both
\* directions: after every processed event the system is up iff no disk is
\* failed.
C3_UnknownLevelUpIffNoDiskFailed ==
    policy.raid_level \notin KnownLevels => (system_down <=> failed_disks # 0)

\* C4: for a positive horizon the returned total_downtime lies in
\* [0, simulation_duration] and the returned availability in [0, 100].
C4_DowntimeAndAvailabilityBounded ==
    (pc = "done" /\ simulation_duration > 0) =>
        /\ 0 <= result.total_downtime
        /\ result.total_downtime <= simulation_duration
        /\ 0 <= result.availability.num
        /\ result.availability.num <= 100 * result.availability.den

\* a trial returned with downtime while a repair event beyond the horizon
\* was left in the queue
C4_Witness ==
    /\ pc = "done" /\ result.total_downtime > 0
    /\ \E i \in 1 .. Len(events) :
          events[i].type = "repair" /\ events[i].time > simulation_duration

\* C6: failed_disks equals the number of disks whose 'failed' flag is set,
\* and downtime_start is set iff system_down is true (the single
\* downtime_start is the only open outage).
C6_StateInvariant ==
    /\ failed_disks = Cardinality({i \in DiskIndices : disks[i].failed})
    /\ (downtime_start # None) <=> system_down

\* between two events, the system is down with two disks failed
C6_Witness ==
    pc = "loop" /\ system_down /\ failed_disks = 2 /\ downtime_start # None

\* C7: the returned MTBF is (horizon - total_downtime) / total_replacements
\* and MTTR is total_downtime / total_replacements when a failure was
\* processed, MTBF is infinite and MTTR 0 otherwise, availability is
\* (1 - total_downtime / horizon) * 100, and total_replacements is the
\* number of failure events processed.
C7_ReturnedMetrics ==
    pc = "done" =>
        /\ result.total_replacements = failures_processed
        /\ failures_processed > 0 =>
              /\ SameNumber(result.MTBF,
                     Quotient(simulation_duration - result.total_downtime, failures_processed))
              /\ SameNumber(result.MTTR, Quotient(result.total_downtime, failures_processed))
        /\ failures_processed = 0 =>
              /\ result.MTBF.inf
              /\ ~result.MTTR.inf /\ result.MTTR.num = 0
        /\ ~result.availability.inf
        /\ result.availability.num * simulation_duration =
              (simulation_duration - result.total_downtime) * 100 * result.availability.den

\* a trial returned after failures that caused downtime
C7_Witness ==
    pc = "done" /\ failures_processed > 1 /\ result.total_downtime > 0

\* C9: when the loop exits, the queue is empty or its earliest event lies
\* strictly beyond the horizon (stated for a positive horizon).
C9_NoDueEventLeftAtLoopExit ==
    (pc = "exited" /\ simulation_duration > 0) =>
        (events = <<>> \/ Head(events).time > simulation_duration)

\* C10: no repair event with a time greater than the horizon is ever in the
\* event queue.
C10_RepairEventsClippedToHorizon ==
    \A i \in 1 .. Len(events) :
        events[i].type = "repair" => events[i].time <= simulation_duration

(***************************************************************************)
(* Properties of simulate_server_and_disks                                 *)
(***************************************************************************)
\* closed intervals lie within [0, horizon], and each interval ends before
\* the next one of the same component starts
IntervalsWellFormed(intervals, horizon) ==
    /\ \A k \in 1 .. Len(intervals) :
          intervals[k][2] # None =>
             /\ 0 <= intervals[k][1]
             /\ intervals[k][1] <= intervals[k][2]
             /\ intervals[k][2] <= horizon
    /\ \A k \in 1 .. Len(intervals) - 1 :
          /\ intervals[k][2] # None
          /\ intervals[k][2] <= intervals[k + 1][1]

PercentInRange(q) == ~q.inf /\ q.den > 0 /\ 0 <= q.num /\ q.num <= 100 * q.den

\* C5: every closed downtime interval of the server and of each disk
\* satisfies 0 <= start <= end <= sim_duration, the intervals of one
\* component do not overlap, and at return the downtime of the server and
\* of each disk is at most sim_duration (availability within [0, 100]).
C5_IntervalsAndDowntimeWithinHorizon ==
    /\ IntervalsWellFormed(server_downtime_intervals, sim_duration)
    /\ \A i \in 1 .. num_disks :
          IntervalsWellFormed(disks_results[i].downtime_intervals, sim_duration)
    /\ norm_pc = "done" =>
          /\ 0 <= server_result.downtime /\ server_result.downtime <= sim_duration
          /\ PercentInRange(server_result.availability_percent)
          /\ \A i \in 1 .. num_disks :
                /\ 0 <= disks_results[i].downtime
                /\ disks_results[i].downtime <= sim_duration
                /\ PercentInRange(disks_results[i].availability_percent)

\* a run returned after two server outages, the second one clipped at the
\* horizon, and a disk with a failure of its own
C5_Witness ==
    /\ norm_pc = "done"
    /\ Len(server_downtime_intervals) = 2
    /\ server_downtime_intervals[2][1] < sim_duration
    /\ server_downtime_intervals[2][2] = sim_duration
    /\ \E i \in 1 .. num_disks :
          /\ disks_results[i].failures > 0
          /\ Len(disks_results[i].downtime_intervals) >= 2
          /\ disks_results[i].downtime > 0

\* mean time between failures as the claim defines it
UptimePerFailure(downtime, failures, horizon) ==
    IF failures > 0 THEN Quotient(horizon - downtime, failures) ELSE Infinity

\* C8: for the server and for each disk the reported mean time between
\* failures is (sim_duration - downtime) / failures when failures > 0 and
\* infinite when failures = 0; MTTR is 0 with zero failures.
C8_NormMeanTimeBetweenFailures ==
    norm_pc = "done" =>
        /\ SameNumber(server_result.mttf,
              UptimePerFailure(server_result.downtime, server_result.failures, sim_duration))
        /\ server_result.failures = 0 => server_result.mttr.num = 0
        /\ \A i \in 1 .. num_disks :
              /\ SameNumber(disks_results[i].mttf,
                    UptimePerFailure(disks_results[i].downtime,
                                     disks_results[i].failures, sim_duration))
              /\ disks_results[i].failures = 0 => disks_results[i].mttr.num = 0

(***************************************************************************)
(* Properties of the event loops of both simulators                        *)
(***************************************************************************)
\* C11: in both simulators current_time never decreases over the event
\* loop: every popped event has a time >= the time of the event popped
\* before it.
C11_TimeNonDecreasing ==
    [][current_time' >= current_time /\ norm_time' >= norm_time]_vars

\* a later event was popped after an earlier one and another one is pending
C11_Witness ==
    /\ pc = "loop"
    /\ failures_processed >= 2
    /\ current_time > 0
    /\ events # <<>>
    /\ Head(events).time >= current_time

\* the same for simulate_server_and_disks
C11_WitnessNorm ==
    /\ norm_pc = "loop"
    /\ server_failures >= 1
    /\ norm_time > 0
    /\ heap # <<>>
    /\ Head(heap).time >= norm_time

\* C12: in simulate_policy with raid_level 0 and exactly 1 disk the system
\* is never down before the first failure event is processed, and that
\* event takes the system down and opens an outage whose start is the
\* time of the failure.
C12_FirstFailureOpensOutage ==
    [][(policy.raid_level = 0 /\ policy.number_of_disks = 1) =>
          /\ failures_processed = 0 => ~system_down
          /\ failures_processed' = 0 => ~system_down'
          /\ (failures_processed = 0 /\ failures_processed' = 1) =>
                /\ system_down'
                /\ current_time' = disks[1].failure_time
                /\ downtime_start' = disks[1].failure_time
                /\ total_downtime' = 0]_vars

\* the first failure of the only disk was processed after time 0
C12_Witness ==
    /\ policy.raid_level = 0 /\ policy.number_of_disks = 1
    /\ pc = "loop"
    /\ failures_processed = 1
    /\ system_down
    /\ current_time > 0
    /\ downtime_start = current_time

(***************************************************************************)
(* Properties of run_simulations                                           *)
(***************************************************************************)
\* sum of the total_downtime entries and of the availability numerators
\* (every availability is a fraction over simulation_duration)
RECURSIVE SumDowntime(_)
SumDowntime(results) ==
    IF results = <<>> THEN 0
    ELSE Head(results).total_downtime + SumDowntime(Tail(results))

RECURSIVE SumAvailability(_)
SumAvailability(results) ==
    IF results = <<>> THEN 0
    ELSE Head(results).availability.num + SumAvailability(Tail(results))

\* C13: meets_sla of the aggregated record is true exactly when the mean of
\* the trials' availability is >= sla_targets.availability and the mean of
\* the trials' total_downtime is <= sla_targets.max_downtime.
C13_MeetsSlaIffBothMeansWithinTargets ==
    run_pc = "done" =>
        /\ Len(all_results) = 1
        /\ \A k \in 1 .. Len(policy_results) :
              policy_results[k].availability.den = simulation_duration
        /\ all_results[1].meets_sla <=>
              /\ num_simulations > 0
              /\ SumAvailability(policy_results) >=
                    sla_targets.availability * simulation_duration * num_simulations
              /\ SumDowntime(policy_results) <= sla_targets.max_downtime * num_simulations

\* two trials with different downtimes whose means meet both targets
C13_Witness ==
    /\ run_pc = "done"
    /\ num_simulations = 2
    /\ policy_results[1].total_downtime # policy_results[2].total_downtime
    /\ all_results[1].meets_sla

\* the mean availability meets its target and the mean downtime does not
C13_WitnessOneTargetMissed ==
    /\ run_pc = "done"
    /\ num_simulations = 2
    /\ SumAvailability(policy_results) >=
          sla_targets.availability * simulation_duration * num_simulations
    /\ ~all_results[1].meets_sla

\* C14: with num_simulations = 0 run_simulations fails with a configuration
\* error and produces no aggregated record for the policy.
C14_ZeroTrialsIsConfigurationError ==
    num_simulations = 0 => (all_results = <<>> /\ run_pc # "done")

\* C15: with a horizon of 0 a trial of either simulator completes normally,
\* without an error from dividing by the horizon, and returns zero
\* downtime, zero failures and 100% availability.
C15_ZeroHorizonReturnsZeroMetrics ==
    /\ (simulation_duration = 0 /\ pc \notin {"idle", "loop", "exited"}) =>
          /\ pc = "done"
          /\ result.total_downtime = 0
          /\ result.total_replacements = 0
          /\ SameNumber(result.availability, Quotient(100, 1))
    /\ (sim_duration = 0 /\ norm_pc \notin {"idle", "loop", "exited"}) =>
          /\ norm_pc = "done"
          /\ server_result.downtime = 0
          /\ server_result.failures = 0
          /\ SameNumber(server_result.availability_percent, Quotient(100, 1))

\* C17: every trial draws from a random stream of its own: the position in
\* the generator at which a trial starts to draw does not depend on the
\* number of draws that earlier trials consumed.
C17_TrialDrawsFromOwnStream ==
    (run_pc = "trials" /\ pc = "loop") => draws_before = 0

C18_CapsNotReached ==
    /\ EventDue("failure") => total_replacements < ReplacementCap
    /\ NormEventDue("server_fail") => server_failures < MaxFailuresNorm

C18_WitnessNorm ==
    /\ min_interval = 1
    /\ norm_pc = "done"
    /\ server_result.failures >= 1

(***************************************************************************)
(* Properties of simulate_server_and_disks                                 *)
(***************************************************************************)
\* a disk_fail or disk_repair event of disk i is in the queue
PendingDiskEvent(i) ==
    \E k \in 1 .. Len(heap) :
        heap[k].index = i /\ heap[k].type \in {"disk_fail", "disk_repair"}

\* C19: while the loop runs, a disk that is up has a pending disk_fail or
\* disk_repair event unless the next failure drawn at its last return to
\* up exceeded sim_duration: every return from down to up, by disk_repair
\* or by server_repair, draws and enqueues the disk's next failure.
C19_UpDiskHasPendingEvent ==
    norm_pc = "loop" =>
        \A i \in 1 .. num_disks :
            disks_status[i] = "up" => (PendingDiskEvent(i) \/ next_fail_beyond[i])

ClosesInterval(i) ==
    /\ LastOpen(disks_results[i].downtime_intervals)
    /\ ~LastOpen(disks_results'[i].downtime_intervals)

\* length of the last outage interval of disk i after the step
ClosedLength(i) ==
    LET last == disks_results'[i].downtime_intervals[
                    Len(disks_results'[i].downtime_intervals)]
    IN last[2] - last[1]

C21_DowntimeIsTimeSpentDown ==
    /\ pc \in {"loop", "exited"} =>
          time_down = total_downtime
                        + (IF system_down THEN current_time - downtime_start ELSE 0)
    /\ pc = "done" =>
          /\ result.total_downtime = time_down
          /\ total_downtime = time_down

\* one outage was closed by a repair and a later one at the horizon
C21_Witness ==
    /\ pc = "done"
    /\ system_down
    /\ downtime_start < simulation_duration
    /\ result.total_downtime > simulation_duration - downtime_start

(***************************************************************************)
(* Order of the event queues                                               *)
(***************************************************************************)
PositionIn(q, e) == CHOOSE k \in 1 .. Len(q) : q[k] = e

\* no event is queued twice, and the history queue holds the same events
QueuesAgree(queue, order) ==
    /\ Len(queue) = Len(order)
    /\ \A j, k \in 1 .. Len(queue) : queue[j] = queue[k] => j = k
    /\ \A k \in 1 .. Len(queue) : InQueue(order, queue[k])

QueueHistoryWellFormed ==
    QueuesAgree(events, enqueued) /\ QueuesAgree(heap, heap_enqueued)

\* the queue is in time order and events of equal time are in the order in
\* which they were enqueued
TimeThenInsertionOrder(queue, order) ==
    \A j, k \in 1 .. Len(queue) :
        j < k =>
            /\ queue[j].time <= queue[k].time
            /\ queue[j].time = queue[k].time =>
                  PositionIn(order, queue[j]) < PositionIn(order, queue[k])

\* C22: the event queue orders events by time and, among events with the
\* same time, by insertion order, in simulate_policy's sorted list and in
\* simulate_server_and_disks' heap.
C22_TiesPoppedInInsertionOrder ==
    /\ pc = "loop" => TimeThenInsertionOrder(events, enqueued)
    /\ norm_pc = "loop" => TimeThenInsertionOrder(heap, heap_enqueued)

\* the same for each simulator alone
C22_PolicyQueue == pc = "loop" => TimeThenInsertionOrder(events, enqueued)
C22_NormQueue == norm_pc = "loop" => TimeThenInsertionOrder(heap, heap_enqueued)

(***************************************************************************)
(* State of simulate_server_and_disks at the exit of the loop              *)
(***************************************************************************)
RECURSIVE SumOfLengths(_)
SumOfLengths(intervals) ==
    IF intervals = <<>> THEN 0
    ELSE (Head(intervals)[2] - Head(intervals)[1]) + SumOfLengths(Tail(intervals))

\* C23: when the event loop of simulate_server_and_disks exits the server
\* is up, every disk is up and no downtime interval is open; the closing
\* branches after the loop add nothing, and the server's downtime, accrued
\* in advance at each failure, is counted once.
C23_AllUpAtLoopExit ==
    /\ norm_pc = "exited" =>
          /\ server_status = "up"
          /\ \A i \in 1 .. num_disks :
                /\ disks_status[i] = "up"
                /\ ~LastOpen(disks_results[i].downtime_intervals)
    /\ norm_pc = "done" =>
          /\ server_result.downtime = server_total_downtime
          /\ server_total_downtime = SumOfLengths(server_downtime_intervals)

\* the loop was left after a server outage and an outage of a disk
C23_Witness ==
    /\ norm_pc = "exited"
    /\ server_failures >= 1
    /\ server_total_downtime > 0
    /\ \E i \in 1 .. num_disks : disks_results[i].failures >= 1

\* number of open entries (start, None) of a list of downtime intervals
RECURSIVE OpenIntervals(_)
OpenIntervals(intervals) ==
    IF intervals = <<>> THEN 0
    ELSE (IF Head(intervals)[2] = None THEN 1 ELSE 0) + OpenIntervals(Tail(intervals))

\* C24: in every state of simulate_server_and_disks between events, while
\* the server is down every disk is down; a disk is down if and only if the
\* last entry of its downtime_intervals is open; each disk has at most one
\* open interval.
C24_DiskStatusMatchesOpenInterval ==
    norm_pc = "loop" =>
        \A i \in 1 .. num_disks :
            /\ server_status = "down" => disks_status[i] = "down"
            /\ disks_status[i] = "down" <=> LastOpen(disks_results[i].downtime_intervals)
            /\ OpenIntervals(disks_results[i].downtime_intervals) <= 1

\* the server went down while one disk was down on its own and another up
C24_Witness ==
    /\ norm_pc = "loop"
    /\ server_status = "down"
    /\ num_disks >= 2
    /\ \E i, j \in 1 .. num_disks :
          /\ disks_results[i].failures >= 1
          /\ LastOpen(disks_results[i].downtime_intervals)
          /\ disks_results[j].failures = 0
          /\ LastOpen(disks_results[j].downtime_intervals)

(***************************************************************************)
(* Pending events and costs of simulate_policy                             *)
(***************************************************************************)
\* positions of the queue that hold an event of disk i
PendingOf(i) == {k \in 1 .. Len(events) : events[k].index = i}

\* C25: in every state of simulate_policy between events each disk has
\* exactly one pending event, a 'repair' if the disk is failed and a
\* 'failure' if it is not, and 0 <= failed_disks <= number_of_disks.
C25_OnePendingEventPerDisk ==
    pc = "loop" =>
        /\ \A i \in DiskIndices :
              /\ Cardinality(PendingOf(i)) = 1
              /\ \A k \in PendingOf(i) :
                    events[k].type = IF disks[i].failed THEN "repair" ELSE "failure"
        /\ failed_disks = Cardinality({i \in DiskIndices : disks[i].failed})
        /\ failed_disks >= 0
        /\ failed_disks <= policy.number_of_disks

\* a failed disk waits for its repair while another disk, repaired before,
\* waits for its next failure
C25_Witness ==
    /\ pc = "loop"
    /\ failures_processed >= 2
    /\ failed_disks >= 1
    /\ failed_disks < policy.number_of_disks
    /\ \E k \in 1 .. Len(events) : events[k].type = "repair"
    /\ \E k \in 1 .. Len(events) :
          events[k].type = "failure" /\ events[k].time = disks[events[k].index].failure_time

(***************************************************************************)
(* Server totals of simulate_server_and_disks                              *)
(***************************************************************************)
\* C26: at return of simulate_server_and_disks the server's lost revenue is
\* its total downtime times the sum of its disks' lost_revenue_per_hour,
\* its total downtime is the sum of the lengths of its recorded downtime
\* intervals, and the number of those intervals is its failure count.
C26_ServerTotalsAtReturn ==
    norm_pc = "done" =>
        /\ server_result.lost_revenue =
              server_result.downtime * SumLostRevenue(num_disks)
        /\ server_result.downtime = SumOfLengths(server_downtime_intervals)
        /\ Len(server_downtime_intervals) = server_result.failures

\* a server with two disks returned after two outages
C26_Witness ==
    /\ norm_pc = "done"
    /\ num_disks = 2
    /\ server_result.failures = 2
    /\ server_result.lost_revenue > 0

\* C27: every failure event processed by simulate_policy adds one to
\* total_replacements and avg_service_cost + avg_maintenance_cost to
\* total_maintenance_cost, whether or not it changes the system's status;
\* repair events change neither; so total_maintenance_cost is always
\* total_replacements * (avg_service_cost + avg_maintenance_cost).
C27_CostPerReplacement ==
    [][/\ total_maintenance_cost
             = total_replacements * (avg_service_cost + avg_maintenance_cost)
       /\ total_maintenance_cost'
             = total_replacements' * (avg_service_cost + avg_maintenance_cost)
       /\ failures_processed' = failures_processed + 1 =>
             /\ total_replacements' = total_replacements + 1
             /\ total_maintenance_cost'
                   = total_maintenance_cost + avg_service_cost + avg_maintenance_cost
       /\ failures_processed' = failures_processed =>
             /\ total_replacements' = total_replacements
             /\ total_maintenance_cost' = total_maintenance_cost]_vars

\* two failures were processed and paid for, none took the system down
C27_Witness ==
    /\ pc = "loop"
    /\ total_replacements >= 2
    /\ failed_disks >= 1
    /\ ~system_down
    /\ total_downtime = 0
    /\ total_maintenance_cost >= 2 * (avg_service_cost + avg_maintenance_cost)

====
